---- MODULE Spec2Model ----
(***************************************************************************)
(* A model of text_vectorizer.py: stem_text, count_bigrams and             *)
(* vectorize_bigrams, run in sequence by vectorize_text or called on       *)
(* their own.                                                              *)
(*                                                                         *)
(* A string is a sequence of one-character strings, so that ' '.join,      *)
(* str.split(), '|'.join and str.split('|') are computed character by      *)
(* character.  A CSV file is a sequence of rows and a row is the sequence  *)
(* of its fields (csv.writer / csv.reader on a list of string fields).     *)
(* A count or an index written with str() is kept as the number.           *)
(***************************************************************************)
EXTENDS Integers, Sequences, FiniteSets

\* ---------------------------------------------------------------- bounds
MaxRows == 1
MaxLen == 4
MaxWords == 3
MaxInputRows == 2

\* ------------------------------------------------------------- constants
\* "if count >= 3", line 89
MinSupport == 3

SP == " "
BAR == "|"

\* -------------------------------------------------------- string helpers
\* str.lower() on the characters the inputs use
LowerChar(c) ==
    CASE c = "Y" -> "y"
      [] c = "Z" -> "z"
      [] c = "I" -> "i"
      [] OTHER -> c

Lower(s) == [k \in 1..Len(s) |-> LowerChar(s[k])]

RECURSIVE SplitFrom(_, _, _, _)
SplitFrom(s, sep, k, cur) ==
    IF k > Len(s) THEN <<cur>>
    ELSE IF s[k] = sep THEN <<cur>> \o SplitFrom(s, sep, k + 1, <<>>)
    ELSE SplitFrom(s, sep, k + 1, Append(cur, s[k]))

\* s.split(sep): every piece between separators, empty pieces kept
Split(s, sep) == SplitFrom(s, sep, 1, <<>>)

NonEmpty(s) == s # <<>>

\* s.split(): pieces between runs of whitespace, no empty piece
SplitWS(s) == SelectSeq(Split(s, SP), NonEmpty)

RECURSIVE Join(_, _)
\* sep.join(parts)
Join(parts, sep) ==
    IF parts = <<>> THEN <<>>
    ELSE IF Len(parts) = 1 THEN parts[1]
    ELSE parts[1] \o <<sep>> \o Join(Tail(parts), sep)

\* ------------------------------------------------------------- bigrams()
\* the pairs (words[i-1], words[i]) the while loop yields for i = 1 .. last
Pairs(words, last) ==
    IF last < 1 THEN <<>> ELSE [k \in 1..last |-> <<words[k], words[k + 1]>>]

Bigrams_Interleaved(words) ==
    IF Len(words) = 0 THEN <<>>
    ELSE [k \in 1..(2 * Len(words) - 1) |->
            IF k % 2 = 1 THEN <<words[(k + 1) \div 2]>>
            ELSE <<words[k \div 2], words[k \div 2 + 1]>>]

\* first "for word in words: yield (word,)", then the while loop from i = 1
\* while i < len(words)
Bigrams(words) ==
    [k \in 1..Len(words) |-> <<words[k]>>] \o Pairs(words, Len(words) - 1)

\* ------------------------------------------------------------ dictionaries
\* d[k] += 1 on a defaultdict(int)
Incr(d, k) ==
    [x \in DOMAIN d \cup {k} |->
        IF x = k THEN (IF k \in DOMAIN d THEN d[k] + 1 ELSE 1) ELSE d[x]]

RECURSIVE CountAll(_, _)
\* "for bigram in ...: counts[bigram] += 1"
CountAll(d, grams) ==
    IF grams = <<>> THEN d ELSE CountAll(Incr(d, Head(grams)), Tail(grams))

\* d[k] = v on a dict
Put(d, k, v) == [x \in DOMAIN d \cup {k} |-> IF x = k THEN v ELSE d[x]]

RECURSIVE Orders(_)
\* The orders in which iterating a dict with key set S may produce the keys
\* (Python 2: by hash and insertion history, not by insertion order alone).
Orders(S) ==
    IF S = {} THEN {<<>>}
    ELSE UNION {{<<x>> \o o : o \in Orders(S \ {x})} : x \in S}

\* position at which a stable sort by key -d[.] puts x into the sorted seq
InsertAt(seq, x, d) == Cardinality({k \in 1..Len(seq) : d[seq[k]] >= d[x]}) + 1

InsertStable(seq, x, d) ==
    LET p == InsertAt(seq, x, d)
    IN  SubSeq(seq, 1, p - 1) \o <<x>> \o SubSeq(seq, p, Len(seq))

RECURSIVE SortedFrom(_, _, _)
SortedFrom(acc, items, d) ==
    IF items = <<>> THEN acc
    ELSE SortedFrom(InsertStable(acc, Head(items), d), Tail(items), d)

SortedByNegCount_Ascending(items, d) ==
    [k \in 1..Len(items) |-> SortedFrom(<<>>, items, d)[Len(items) + 1 - k]]

\* sorted(items, key=lambda x: -x[-1]): stable, descending count
SortedByNegCount(items, d) == SortedFrom(<<>>, items, d)

KeptKeys_Strict(d) == {g \in DOMAIN d : d[g] > MinSupport}

\* the keys that pass "if count >= 3"
KeptKeys(d) == {g \in DOMAIN d : d[g] >= MinSupport}

\* ------------------------------------------------------------------ state
VARIABLES
    entry,           \* the function that was called
    pc,              \* where the run is
    stdout,          \* the lines printed by vectorize_text
    stopwords,       \* stopwords.words('english')
    stemmer,         \* LancasterStemmer().stem
    inputFile,       \* rows of csv_filename
    stemmedFile,     \* rows of the *_stemmed.csv file
    countsFile,      \* rows of the *_bigram_counts.csv file
    vectorizedFile,  \* rows of the *_vectorized.csv file
    pos,             \* rows the csv.reader of the running loop has produced
    counts,          \* count_bigrams: counts
    ranked,          \* count_bigrams: the (bigram, count) pairs written, in order
    bigram_indices,  \* vectorize_bigrams: bigram_indices
    i,               \* vectorize_bigrams: i
    yielded,         \* what the last bigrams() call yielded
    returned         \* the file the called function returned, or "none"

vars == <<entry, pc, stdout, stopwords, stemmer, inputFile, stemmedFile, countsFile,
          vectorizedFile, pos, counts, ranked, bigram_indices, i, yielded, returned>>

\* ----------------------------------------------------------------- inputs
Wx == <<"x">>
Wp == <<"x", "|", "x">>
Wy == <<"y">>
Wz == <<"z">>
WZ == <<"Z">>
Wi == <<"i">>
WI == <<"I">>
Label0 == <<"0">>

SeqsUpTo(S, n) == UNION {[1..k -> S] : k \in 0..n}

\* a text whose whitespace-separated words are ws
TextOf(ws) == Join(ws, SP)

StemDomain == {Wx, Wp, Wy, Wz, WZ, Wi, WI}
IdentityStem == [w \in StemDomain |-> w]
StemFns ==
    {[w \in StemDomain |-> IF w \in DOMAIN f THEN f[w] ELSE w] : f \in [{Wy, Wz, Wi} -> {Wy, Wz}]}
StopSets == {{}, {Wi}, {Wy, Wi}}

\* corpora over a plain token and a token that holds the '|' character
CorpusFiles ==
    SeqsUpTo({<<Label0, TextOf(ws)>> : ws \in SeqsUpTo({Wx, Wp}, MaxLen)}, MaxRows)

\* one record of mixed-case words, some of them stopwords
NormalizeFiles ==
    {<<<<Label0, TextOf(ws)>>>> : ws \in SeqsUpTo({Wy, WZ, WI}, MaxWords)}

\* rows with zero, one, two and three fields
MixedRows ==
    {<<>>, <<Label0>>, <<Label0, Wy, Wy>>,
     <<Label0, TextOf(<<Wy, Wy, Wy>>)>>, <<Label0, TextOf(<<Wz, Wz, Wz>>)>>,
     <<Label0, TextOf(<<Wy, Wy, Wz>>)>>}
MixedFiles == SeqsUpTo(MixedRows, MaxInputRows)
MixedCountRows == {<<Wy>>, <<Wy, 3>>, <<Join(<<Wy, Wy>>, BAR), 3>>}
MixedCountFiles == SeqsUpTo(MixedCountRows, MaxInputRows)

Fresh ==
    /\ pc = "call"
    /\ stdout = <<>>
    /\ vectorizedFile = <<>>
    /\ pos = 0
    /\ counts = <<>>
    /\ ranked = <<>>
    /\ bigram_indices = <<>>
    /\ i = 0
    /\ yielded = <<>>
    /\ returned = "none"

InitCorpus ==
    /\ entry = "vectorize_text"
    /\ inputFile \in CorpusFiles
    /\ stopwords = {}
    /\ stemmer = IdentityStem
    /\ stemmedFile = <<>>
    /\ countsFile = <<>>
    /\ Fresh

InitNormalize ==
    /\ entry = "vectorize_text"
    /\ inputFile \in NormalizeFiles
    /\ stopwords \in StopSets
    /\ stemmer \in StemFns
    /\ stemmedFile = <<>>
    /\ countsFile = <<>>
    /\ Fresh

InitMixed ==
    /\ entry \in {"vectorize_text", "count_bigrams", "vectorize_bigrams"}
    /\ stopwords = {}
    /\ stemmer = IdentityStem
    /\ inputFile \in (IF entry = "vectorize_text" THEN MixedFiles ELSE {<<>>})
    /\ stemmedFile \in (IF entry = "vectorize_text" THEN {<<>>} ELSE MixedFiles)
    /\ countsFile \in (IF entry = "vectorize_bigrams" THEN MixedCountFiles ELSE {<<>>})
    /\ Fresh

Init == InitCorpus \/ InitNormalize \/ InitMixed

\* ------------------------------------------------------------ vectorize_text
\* print 'stemming text...' and call stem_text
VectorizeText ==
    /\ pc = "call"
    /\ entry = "vectorize_text"
    /\ stdout' = Append(stdout, "stemming text...")
    /\ pc' = "stem"
    /\ UNCHANGED <<entry, stopwords, stemmer, inputFile, stemmedFile, countsFile,
                   vectorizedFile, pos, counts, ranked, bigram_indices, i, yielded, returned>>

\* a direct call of count_bigrams(stemmed_filename)
CallCountBigrams ==
    /\ pc = "call"
    /\ entry = "count_bigrams"
    /\ pc' = "count"
    /\ UNCHANGED <<entry, stdout, stopwords, stemmer, inputFile, stemmedFile, countsFile,
                   vectorizedFile, pos, counts, ranked, bigram_indices, i, yielded, returned>>

\* a direct call of vectorize_bigrams(stemmed_filename, bigram_filename)
CallVectorizeBigrams ==
    /\ pc = "call"
    /\ entry = "vectorize_bigrams"
    /\ pc' = "index"
    /\ UNCHANGED <<entry, stdout, stopwords, stemmer, inputFile, stemmedFile, countsFile,
                   vectorizedFile, pos, counts, ranked, bigram_indices, i, yielded, returned>>

\* the unpacking "a, b = row" raises ValueError unless the row has two fields
Unpacks(row) == Len(row) = 2

\* ---------------------------------------------------------------- stem_text
StemWords_RawStop(text, stop, stem) ==
    LET words == SplitWS(text)
        uncommon(w) == w \notin stop
        kept == SelectSeq(words, uncommon)
    IN  [k \in 1..Len(kept) |-> stem[Lower(kept[k])]]

\* [stemmer.stem(word.lower()) for word in text.split()
\*    if not word.lower() in stopwords.words('english')]
StemWords(text, stop, stem) ==
    LET words == SplitWS(text)
        uncommon(w) == Lower(w) \notin stop
        kept == SelectSeq(words, uncommon)
    IN  [k \in 1..Len(kept) |-> stem[Lower(kept[k])]]

StemRow ==
    /\ pc = "stem"
    /\ pos < Len(inputFile)
    /\ Unpacks(inputFile[pos + 1])
    /\ LET label == inputFile[pos + 1][1]
           text == inputFile[pos + 1][2]
           stemmed_uncommon_words == StemWords(text, stopwords, stemmer)
       IN  stemmedFile' = Append(stemmedFile, <<label, Join(stemmed_uncommon_words, SP)>>)
    /\ pos' = pos + 1
    /\ UNCHANGED <<entry, pc, stdout, stopwords, stemmer, inputFile, countsFile,
                   vectorizedFile, counts, ranked, bigram_indices, i, yielded, returned>>

Raise ==
    /\ pc' = "failed"
    /\ UNCHANGED <<entry, stdout, stopwords, stemmer, inputFile, stemmedFile, countsFile,
                   vectorizedFile, pos, counts, ranked, bigram_indices, i, yielded, returned>>

StemFail_Skip ==
    /\ pc = "stem"
    /\ pos < Len(inputFile)
    /\ ~Unpacks(inputFile[pos + 1])
    /\ pos' = pos + 1
    /\ UNCHANGED <<entry, pc, stdout, stopwords, stemmer, inputFile, stemmedFile, countsFile,
                   vectorizedFile, counts, ranked, bigram_indices, i, yielded, returned>>

StemFail ==
    /\ pc = "stem"
    /\ pos < Len(inputFile)
    /\ ~Unpacks(inputFile[pos + 1])
    /\ Raise

StemReturn_SkipCount ==
    /\ pc = "stem"
    /\ pos = Len(inputFile)
    /\ stdout' = Append(stdout, "vectorizing text...")
    /\ pc' = "index"
    /\ pos' = 0
    /\ UNCHANGED <<entry, stopwords, stemmer, inputFile, stemmedFile, countsFile,
                   vectorizedFile, counts, ranked, bigram_indices, i, yielded, returned>>

\* stem_text returns; print 'counting bigrams...' and call count_bigrams
StemReturn ==
    /\ pc = "stem"
    /\ pos = Len(inputFile)
    /\ stdout' = Append(stdout, "counting bigrams...")
    /\ pc' = "count"
    /\ pos' = 0
    /\ UNCHANGED <<entry, stopwords, stemmer, inputFile, stemmedFile, countsFile,
                   vectorizedFile, counts, ranked, bigram_indices, i, yielded, returned>>

\* ------------------------------------------------------------- count_bigrams
CountRow ==
    /\ pc = "count"
    /\ pos < Len(stemmedFile)
    /\ Unpacks(stemmedFile[pos + 1])
    /\ LET stemmed_text == stemmedFile[pos + 1][2]
       IN  /\ yielded' = Bigrams(SplitWS(stemmed_text))
           /\ counts' = CountAll(counts, yielded')
    /\ pos' = pos + 1
    /\ UNCHANGED <<entry, pc, stdout, stopwords, stemmer, inputFile, stemmedFile, countsFile,
                   vectorizedFile, ranked, bigram_indices, i, returned>>

CountFail ==
    /\ pc = "count"
    /\ pos < Len(stemmedFile)
    /\ ~Unpacks(stemmedFile[pos + 1])
    /\ Raise

\* The second half of count_bigrams, and its return.  sorted() runs over
\* counts.items() in the dict's iteration order; the pairs below the support
\* are skipped by the loop and a stable sort keeps the relative order of the
\* others, so only the iteration order of the kept keys shows in the file.
WriteCounts ==
    /\ pc = "count"
    /\ pos = Len(stemmedFile)
    /\ \E items \in Orders(KeptKeys(counts)) :
         LET sorted == SortedByNegCount(items, counts)
         IN  /\ ranked' = [k \in 1..Len(sorted) |-> <<sorted[k], counts[sorted[k]]>>]
             /\ countsFile' = [k \in 1..Len(sorted) |->
                                 <<Join(sorted[k], BAR), counts[sorted[k]]>>]
    /\ pos' = 0
    /\ IF entry = "count_bigrams"
       THEN /\ pc' = "done"
            /\ returned' = "bigram_counts"
            /\ UNCHANGED stdout
       ELSE /\ pc' = "index"
            /\ stdout' = Append(stdout, "vectorizing text...")
            /\ UNCHANGED returned
    /\ UNCHANGED <<entry, stopwords, stemmer, inputFile, stemmedFile,
                   vectorizedFile, counts, bigram_indices, i, yielded>>

\* ---------------------------------------------------------- vectorize_bigrams
IndexRow ==
    /\ pc = "index"
    /\ pos < Len(countsFile)
    /\ Unpacks(countsFile[pos + 1])
    /\ LET bigram == Split(countsFile[pos + 1][1], BAR)
       IN  bigram_indices' = Put(bigram_indices, bigram, i)
    /\ i' = i + 1
    /\ pos' = pos + 1
    /\ UNCHANGED <<entry, pc, stdout, stopwords, stemmer, inputFile, stemmedFile, countsFile,
                   vectorizedFile, counts, ranked, yielded, returned>>

IndexFail ==
    /\ pc = "index"
    /\ pos < Len(countsFile)
    /\ ~Unpacks(countsFile[pos + 1])
    /\ Raise

\* the count file is exhausted; the output file and the stemmed file are opened
IndexDone ==
    /\ pc = "index"
    /\ pos = Len(countsFile)
    /\ pc' = "vectorize"
    /\ pos' = 0
    /\ UNCHANGED <<entry, stdout, stopwords, stemmer, inputFile, stemmedFile, countsFile,
                   vectorizedFile, counts, ranked, bigram_indices, i, yielded, returned>>

RowCounts_ZeroFilled(grams, indices) ==
    [g \in DOMAIN indices |-> Cardinality({k \in DOMAIN grams : grams[k] = g})]

\* "if bigram in bigram_indices: bigram_counts[bigram] += 1" over the n-grams
RowCounts(grams, indices) ==
    LET known(g) == g \in DOMAIN indices
    IN  CountAll(<<>>, SelectSeq(grams, known))

VectorRow_Misaligned(label, bigram_counts, indices, items) ==
    <<label,
      [k \in 1..Len(items) |-> indices[items[k]]],
      [k \in 1..Len(items) |-> bigram_counts[items[Len(items) + 1 - k]]]>>

\* the row written for one record, bigram_counts.items() coming in order `items`
VectorRow(label, bigram_counts, indices, items) ==
    <<label,
      [k \in 1..Len(items) |-> indices[items[k]]],
      [k \in 1..Len(items) |-> bigram_counts[items[k]]]>>

VectorizeRow ==
    /\ pc = "vectorize"
    /\ pos < Len(stemmedFile)
    /\ Unpacks(stemmedFile[pos + 1])
    /\ LET label == stemmedFile[pos + 1][1]
           stemmed_text == stemmedFile[pos + 1][2]
           grams == Bigrams(SplitWS(stemmed_text))
           bigram_counts == RowCounts(grams, bigram_indices)
       IN  /\ yielded' = grams
           /\ \E items \in Orders(DOMAIN bigram_counts) :
                vectorizedFile' =
                    Append(vectorizedFile, VectorRow(label, bigram_counts, bigram_indices, items))
    /\ pos' = pos + 1
    /\ UNCHANGED <<entry, pc, stdout, stopwords, stemmer, inputFile, stemmedFile, countsFile,
                   counts, ranked, bigram_indices, i, returned>>

VectorizeFail ==
    /\ pc = "vectorize"
    /\ pos < Len(stemmedFile)
    /\ ~Unpacks(stemmedFile[pos + 1])
    /\ Raise

VectorizeReturn ==
    /\ pc = "vectorize"
    /\ pos = Len(stemmedFile)
    /\ pc' = "done"
    /\ returned' = "vectorized"
    /\ UNCHANGED <<entry, stdout, stopwords, stemmer, inputFile, stemmedFile, countsFile,
                   vectorizedFile, pos, counts, ranked, bigram_indices, i, yielded>>

\* ------------------------------------------------- what the claims speak of
Range(seq) == {seq[k] : k \in DOMAIN seq}

\* number of positions of seq that hold g
Occ(g, seq) == Cardinality({k \in DOMAIN seq : seq[k] = g})

RECURSIVE SumSeq(_)
SumSeq(ns) == IF ns = <<>> THEN 0 ELSE Head(ns) + SumSeq(Tail(ns))

\* the tokens and the n-gram extraction of record r of the stemmed file
RowTokens(r) == SplitWS(stemmedFile[r][2])
RowGrams(r) == Bigrams(RowTokens(r))

\* the n-gram extraction of every record, in input order
AllRowGrams == [r \in DOMAIN stemmedFile |-> RowGrams(r)]

\* occurrences of g summed over the records' extractions
TotalIn(g, rowGrams) == SumSeq([r \in DOMAIN rowGrams |-> Occ(g, rowGrams[r])])

\* <<r, k>> precedes <<q, j>> in the aggregation: record by record, and in
\* the order of the extraction within a record
Precedes(a, b) == a[1] < b[1] \/ (a[1] = b[1] /\ a[2] < b[2])

\* the first <<record, position>> at which g is encountered
FirstSeenIn(g, rowGrams) ==
    LET at == {x \in UNION {{<<r, k>> : k \in DOMAIN rowGrams[r]} : r \in DOMAIN rowGrams} :
                  rowGrams[x[1]][x[2]] = g}
    IN  CHOOSE x \in at : \A y \in at : x = y \/ Precedes(x, y)

\* count_bigrams has just returned
CountReturned ==
    \/ entry = "count_bigrams" /\ pc = "done"
    \/ entry = "vectorize_text" /\ pc = "index" /\ pos = 0

\* count_bigrams has run to its end on the stemmed file
Counted == entry # "vectorize_bigrams" /\ pc \in {"index", "vectorize", "done"}

\* the index of vectorize_bigrams is complete, built from count_bigrams' file
Indexed == entry = "vectorize_text" /\ pc \in {"vectorize", "done"}

\* ---------------------------------------------------------------------- C1
\* C1: a call of bigrams on tokens T yields the len(T) unigrams (T[k]) in token
\* order and then the len(T)-1 bigrams (T[k], T[k+1]) in order: 2*len(T)-1
\* n-grams for len(T) >= 1, none for an empty T, no bigram before the last
\* unigram.
C1_BigramsShape ==
    (pc \in {"count", "vectorize"} /\ pos > 0) =>
        LET T == RowTokens(pos)
            n == Len(T)
        IN  /\ Len(yielded) = (IF n = 0 THEN 0 ELSE 2 * n - 1)
            /\ \A k \in 1..n : yielded[k] = <<T[k]>>
            /\ \A k \in 1..(n - 1) : yielded[n + k] = <<T[k], T[k + 1]>>
            /\ \A k \in DOMAIN yielded : Len(yielded[k]) = (IF k <= n THEN 1 ELSE 2)

C1_Witness ==
    /\ pc = "count"
    /\ pos > 0
    /\ Len(RowTokens(pos)) = 3
    /\ Len(yielded) = 5
    /\ yielded[4] # yielded[5]

\* ---------------------------------------------------------------------- C2
\* C2: when count_bigrams returns it has written one row for each n-gram
\* whose occurrences, summed over the extraction of every record, are at
\* least 3, and for no other; the row holds the n-gram joined by '|' and
\* that sum.
C2_VocabularyIsSupport ==
    CountReturned =>
        LET rowGrams == AllRowGrams
            survivors == {g \in UNION {Range(rowGrams[r]) : r \in DOMAIN rowGrams} :
                             TotalIn(g, rowGrams) >= MinSupport}
        IN  /\ {ranked[k][1] : k \in DOMAIN ranked} = survivors
            /\ Len(ranked) = Cardinality(survivors)
            /\ \A k \in DOMAIN ranked : ranked[k][2] = TotalIn(ranked[k][1], rowGrams)
            /\ Len(countsFile) = Len(ranked)
            /\ \A k \in DOMAIN ranked :
                 countsFile[k] = <<Join(ranked[k][1], BAR), ranked[k][2]>>

C2_Witness ==
    /\ CountReturned
    /\ Len(stemmedFile) = 2
    /\ Len(ranked) = 2
    /\ \E g \in Range(RowGrams(2)) : TotalIn(g, AllRowGrams) < MinSupport
    /\ \E g \in Range(RowGrams(1)) :
         /\ Occ(g, RowGrams(1)) = 2
         /\ Occ(g, RowGrams(2)) = 1
         /\ \E k \in DOMAIN countsFile : countsFile[k] = <<Join(g, BAR), 3>>

\* ---------------------------------------------------------------------- C3
\* C3: the index built by vectorize_bigrams from count_bigrams' file holds
\* exactly the surviving n-grams, each with a corpus count of at least 3, and
\* maps them one to one onto 0..V-1, V the number of surviving n-grams.
C3_IndexBijection ==
    Indexed =>
        LET rowGrams == AllRowGrams
            survivors == {g \in UNION {Range(rowGrams[r]) : r \in DOMAIN rowGrams} :
                             TotalIn(g, rowGrams) >= MinSupport}
        IN  /\ DOMAIN bigram_indices = survivors
            /\ \A g \in DOMAIN bigram_indices : TotalIn(g, rowGrams) >= MinSupport
            /\ {bigram_indices[g] : g \in DOMAIN bigram_indices}
                   = 0..(Cardinality(survivors) - 1)
            /\ \A g, h \in DOMAIN bigram_indices :
                 bigram_indices[g] = bigram_indices[h] => g = h

\* ---------------------------------------------------------------------- C4
\* C4 as claimed: the rows are in descending order of count, and n-grams of
\* equal count are in the reverse of the order of their first encounter.
C4_RankOrder ==
    CountReturned =>
        LET rowGrams == AllRowGrams
        IN  \A r, s \in DOMAIN ranked :
                r < s =>
                    /\ ranked[r][2] >= ranked[s][2]
                    /\ ranked[r][2] = ranked[s][2] =>
                         Precedes(FirstSeenIn(ranked[s][1], rowGrams),
                                  FirstSeenIn(ranked[r][1], rowGrams))

\* C4 as amended: the rows of the vocabulary file are in descending order of
\* their recorded count, and the index of an n-gram is the position (from 0)
\* of a row that holds it; the order among equal counts is left open.
C4_DescendingCounts ==
    /\ Counted =>
         \A r, s \in DOMAIN countsFile : r < s => countsFile[r][2] >= countsFile[s][2]
    /\ Indexed =>
         \A g \in DOMAIN bigram_indices :
            /\ bigram_indices[g] \in 0..(Len(countsFile) - 1)
            /\ Split(countsFile[bigram_indices[g] + 1][1], BAR) = g

C4_Witness ==
    /\ Indexed
    /\ Len(countsFile) = 2
    /\ countsFile[1][2] = countsFile[2][2]
    /\ Precedes(FirstSeenIn(ranked[1][1], AllRowGrams), FirstSeenIn(ranked[2][1], AllRowGrams))
    /\ ranked[1][1] \in DOMAIN bigram_indices /\ bigram_indices[ranked[1][1]] = 0
    /\ ranked[2][1] \in DOMAIN bigram_indices /\ bigram_indices[ranked[2][1]] = 1

\* ---------------------------------------------------------------------- C5
\* C5: every index in an emitted feature vector is an index of the frozen
\* vocabulary (in 0..V-1) held by an n-gram of that record's extraction, every
\* emitted count is positive, and the n-grams of the record that the
\* vocabulary lacks add no entry.
C5_VectorEntriesValid ==
    \A r \in DOMAIN vectorizedFile :
        LET indices == vectorizedFile[r][2]
            cnts == vectorizedFile[r][3]
            inVocabulary == Range(RowGrams(r)) \cap DOMAIN bigram_indices
        IN  /\ \A k \in DOMAIN indices :
                 /\ indices[k] \in 0..(Len(countsFile) - 1)
                 /\ \E g \in inVocabulary : bigram_indices[g] = indices[k]
            /\ \A k \in DOMAIN cnts : cnts[k] > 0
            /\ Len(indices) = Cardinality(inVocabulary)

C5_Witness ==
    /\ pc = "done"
    /\ \E r \in DOMAIN vectorizedFile :
         /\ Len(vectorizedFile[r][2]) = 2
         /\ Range(RowGrams(r)) \ DOMAIN bigram_indices # {}

\* ---------------------------------------------------------------------- C6
\* C6: for every entry of the vocabulary written by count_bigrams, the counts
\* stored under its index in the feature vectors of all records add up to its
\* corpus count.
CountUnder(row, index) ==
    SumSeq([k \in DOMAIN row[2] |-> IF row[2][k] = index THEN row[3][k] ELSE 0])

C6_RoundTrip ==
    (entry = "vectorize_text" /\ pc = "done") =>
        \A e \in DOMAIN ranked :
            SumSeq([r \in DOMAIN vectorizedFile |-> CountUnder(vectorizedFile[r], e - 1)])
                = ranked[e][2]

\* ---------------------------------------------------------------------- C7
\* C7: in every row of the vectorized file the two lists have the same
\* length, no index occurs twice, the k-th count is the number of occurrences
\* in the record of the n-gram that holds the k-th index, and both lists are
\* empty when no n-gram of the record is in the vocabulary.
C7_ListsAligned ==
    \A r \in DOMAIN vectorizedFile :
        LET indices == vectorizedFile[r][2]
            cnts == vectorizedFile[r][3]
            grams == RowGrams(r)
        IN  /\ Len(vectorizedFile[r]) = 3
            /\ vectorizedFile[r][1] = stemmedFile[r][1]
            /\ Len(indices) = Len(cnts)
            /\ \A j, k \in DOMAIN indices : indices[j] = indices[k] => j = k
            /\ \A k \in DOMAIN indices :
                 \E g \in DOMAIN bigram_indices :
                    /\ bigram_indices[g] = indices[k]
                    /\ cnts[k] = Occ(g, grams)
            /\ (Range(grams) \cap DOMAIN bigram_indices = {}) =>
                 (indices = <<>> /\ cnts = <<>>)

C7_Witness ==
    /\ pc = "done"
    /\ Len(vectorizedFile) = 2
    /\ Len(vectorizedFile[1][2]) = 2
    /\ vectorizedFile[1][3][1] # vectorizedFile[1][3][2]
    /\ vectorizedFile[1][2][1] > vectorizedFile[1][2][2]
    /\ vectorizedFile[2][2] = <<>>
    /\ vectorizedFile[2][3] = <<>>

\* ---------------------------------------------------------------------- C8
PhaseLines == <<"stemming text...", "counting bigrams...", "vectorizing text...">>

IsPrefix(a, b) == Len(a) <= Len(b) /\ SubSeq(b, 1, Len(a)) = a

PcRank(p) ==
    CASE p = "call" -> 0
      [] p = "stem" -> 1
      [] p = "count" -> 2
      [] p = "index" -> 3
      [] p = "vectorize" -> 4
      [] OTHER -> 5

\* C8: a run of vectorize_text enters NORMALIZE, BUILD_VOCABULARY and
\* VECTORIZE once each and in that order; a phase starts only when the one
\* before has read all its input and written its output, a feature vector
\* is emitted only when the vocabulary index is complete, and from the first
\* emitted vector on neither the vocabulary file nor the index changes.
C8_PhasesInOrder ==
    [][entry = "vectorize_text" =>
        /\ IsPrefix(stdout, stdout') /\ IsPrefix(stdout', PhaseLines)
        /\ PcRank(pc') >= PcRank(pc)
        /\ pc' # "failed" => Len(stdout') = (IF PcRank(pc') <= 2 THEN PcRank(pc') ELSE 3)
        /\ stemmedFile' # stemmedFile => pc = "stem"
        /\ (pc = "stem" /\ pc' = "count") =>
             (pos = Len(inputFile) /\ Len(stemmedFile) = Len(inputFile))
        /\ (counts' # counts \/ countsFile' # countsFile) => pc = "count"
        /\ (pc = "count" /\ pc' = "index") =>
             (pos = Len(stemmedFile) /\ Len(countsFile') = Cardinality(KeptKeys(counts)))
        /\ bigram_indices' # bigram_indices => pc = "index"
        /\ (pc = "index" /\ pc' = "vectorize") =>
             (pos = Len(countsFile) /\ i = Len(countsFile))
        /\ vectorizedFile' # vectorizedFile => pc = "vectorize"
        /\ (pc = "vectorize" /\ pc' = "done") => Len(vectorizedFile) = Len(stemmedFile)
        /\ vectorizedFile # <<>> =>
             /\ bigram_indices' = bigram_indices
             /\ countsFile' = countsFile
             /\ stemmedFile' = stemmedFile]_vars

C8_Witness ==
    /\ entry = "vectorize_text"
    /\ pc = "done"
    /\ stdout = PhaseLines
    /\ Len(vectorizedFile) = 2
    /\ Len(countsFile) = 2
    /\ returned = "vectorized"

\* ---------------------------------------------------------------------- C9
\* the rows the running loop reads
LoopRows ==
    CASE pc = "stem" -> inputFile
      [] pc \in {"count", "vectorize"} -> stemmedFile
      [] pc = "index" -> countsFile
      [] OTHER -> <<>>

\* C9: when the next row a phase reads has a number of fields other than 2,
\* the run fails there: the row is not skipped, nothing is written for it or
\* for a later row, no later phase starts and nothing is returned; a failed
\* run takes no further step.
C9_MalformedFails ==
    [][/\ (pos < Len(LoopRows) /\ Len(LoopRows[pos + 1]) # 2) =>
            /\ pc' = "failed"
            /\ returned' = "none"
            /\ UNCHANGED <<stdout, stemmedFile, countsFile, vectorizedFile, pos,
                           counts, bigram_indices, i>>
       /\ pc = "failed" => UNCHANGED vars
       /\ pc' = "failed" => (pos < Len(LoopRows) /\ Len(LoopRows[pos + 1]) # 2)]_vars

C9_Witness ==
    /\ pc = "failed"
    /\ entry = "vectorize_text"
    /\ stdout = <<"stemming text...">>
    /\ returned = "none"
    /\ pos = 0
    /\ Len(inputFile) = 2
    /\ Len(inputFile[1]) = 3
    /\ Len(inputFile[2]) = 2
    /\ stemmedFile = <<>>

\* --------------------------------------------------------------------- C10
\* the n-th position of words whose lowercased word is no stopword
NthKept(words, kept, n) ==
    CHOOSE k \in kept : Cardinality({j \in kept : j <= k}) = n

\* the tokens of record r are the stems of the lowercased words of its text
\* that are no stopwords, one for each and in the order of the text
TokensAreStems(r) ==
    LET words == SplitWS(inputFile[r][2])
        kept == {k \in DOMAIN words : Lower(words[k]) \notin stopwords}
        tokens == RowTokens(r)
    IN  /\ stemmedFile[r][1] = inputFile[r][1]
        /\ Len(tokens) = Cardinality(kept)
        /\ \A n \in DOMAIN tokens : tokens[n] = stemmer[Lower(words[NthKept(words, kept, n)])]

\* the bigrams yielded for record r pair the words of its text that are
\* adjacent once the stopwords are gone
PairsSkipStopwords(r) ==
    LET words == SplitWS(inputFile[r][2])
        kept == {k \in DOMAIN words : Lower(words[k]) \notin stopwords}
        m == Cardinality(kept)
    IN  \A n \in 1..(m - 1) :
            yielded[m + n] = <<stemmer[Lower(words[NthKept(words, kept, n)])],
                               stemmer[Lower(words[NthKept(words, kept, n + 1)])]>>

\* C10: the tokens the later phases read for a record are the stems of the
\* lowercased words of its text that are no stopwords, one token for each
\* such word and in the order of the text, and the bigrams extracted pair
\* the words that are adjacent once the stopwords are gone.
C10_NormalizedTokens ==
    (entry = "vectorize_text" /\ pos > 0) =>
        /\ pc = "stem" => TokensAreStems(pos)
        /\ pc \in {"count", "vectorize"} => (TokensAreStems(pos) /\ PairsSkipStopwords(pos))

C10_Witness ==
    /\ entry = "vectorize_text"
    /\ pc = "count"
    /\ pos = 1
    /\ inputFile[1][2] = TextOf(<<WZ, WI, Wy>>)
    /\ stopwords = {Wi}
    /\ stemmer[Wz] = Wy
    /\ stemmer[Wy] = Wz
    /\ yielded = <<<<Wy>>, <<Wz>>, <<Wy, Wz>>>>

Next ==
    \/ VectorizeText
    \/ CallCountBigrams
    \/ CallVectorizeBigrams
    \/ StemRow
    \/ StemFail
    \/ StemReturn
    \/ CountRow
    \/ CountFail
    \/ WriteCounts
    \/ IndexRow
    \/ IndexFail
    \/ IndexDone
    \/ VectorizeRow
    \/ VectorizeFail
    \/ VectorizeReturn

Spec == Init /\ [][Next]_vars

====
